---- MODULE Spec2Model ----
(***************************************************************************)
(* A model of rbtools/clients/svn.py: the diff post-processing of          *)
(* SVNClient (parse_filename_header, find_copyfrom, handle_renames,        *)
(* convert_to_absolute_paths).                                             *)
(*                                                                         *)
(* A Python string is a sequence of one-character strings, so that         *)
(* slicing, splitting, replacing and joining are computed character by     *)
(* character, as the code computes them.  Python's None is the value NONE. *)
(***************************************************************************)
EXTENDS Integers, Sequences, FiniteSets, TLC

VARIABLES
    pc,             \* call stack: a sequence of control points, current first
    repository_url, \* self.options.repository_url (NONE when the option is unset)
    base_path,      \* repository_info.base_path
    svn,            \* what 'svn info' answers: path -> info (the collaborator)
    lookups,        \* the set of paths svn_info has been invoked on
    raised,         \* the exception that ended the run, "" when none
    s,              \* parse_filename_header: its argument
    parts,          \* parse_filename_header: its return value
    path,           \* find_copyfrom: its argument
    path1,          \* find_copyfrom: the candidate path
    path2,          \* find_copyfrom: the accumulated relative suffix
    probes,         \* find_copyfrom: svn_info calls of the current call
    copied_from,    \* find_copyfrom: its return value
    diff_content,   \* handle_renames / convert_to_absolute_paths: the input
    idx,            \* position of the for loop in diff_content
    from_line,      \* handle_renames: the pending '---' line
    result,         \* the output list under construction
    pass            \* convert_to_absolute_paths: 1, or 2 when re-applied

vars == <<pc, repository_url, base_path, svn, lookups, raised, s, parts, path,
          path1, path2, probes, copied_from, diff_content, idx, from_line,
          result, pass>>

envVars == <<repository_url, base_path, svn>>
parseVars == <<s, parts>>
copyVars == <<path, path1, path2, probes, copied_from>>
loopVars == <<diff_content, idx, from_line, result, pass>>

-----------------------------------------------------------------------------
(* Bounds of the model *)

\* longest header remainder handed to parse_filename_header
MaxS == 5
\* longest path handed to find_copyfrom
MaxPath == 5
\* longest diff, in lines
MaxLines == 3
\* the value at which the per-call count of svn_info calls saturates
MaxProbes == 8

-----------------------------------------------------------------------------
(* Python values and string primitives *)

NONE == <<"<None>">>

Truthy(x) == x # NONE /\ x # <<>>

Strs(A, n) == UNION {[1..k -> A] : k \in 0..n}

\* s[i:]  (i is a Python index, 0-based)
From(str, i) == SubSeq(str, i + 1, Len(str))

\* s[:i]
Upto(str, i) == SubSeq(str, 1, i)

\* sub in s
Contains(str, sub) ==
    \E i \in 0..(Len(str) - Len(sub)) : SubSeq(str, i + 1, i + Len(sub)) = sub

\* s.startswith(prefix)
StartsWith(str, prefix) ==
    Len(str) >= Len(prefix) /\ SubSeq(str, 1, Len(prefix)) = prefix

\* s.find(sub) as a 1-based position, 0 when sub does not occur
Find(str, sub) ==
    IF Contains(str, sub)
    THEN CHOOSE i \in 1..(Len(str) - Len(sub) + 1) :
            /\ SubSeq(str, i, i + Len(sub) - 1) = sub
            /\ \A j \in 1..(i - 1) : SubSeq(str, j, j + Len(sub) - 1) # sub
    ELSE 0

\* s.rfind(c) for a single character, as a 1-based position, 0 when absent
RFind(str, c) ==
    IF \E i \in 1..Len(str) : str[i] = c
    THEN CHOOSE i \in 1..Len(str) :
            str[i] = c /\ \A j \in (i + 1)..Len(str) : str[j] # c
    ELSE 0

\* s.split(sep, 1) for a single-character separator
Split1(str, sep) ==
    LET i == Find(str, <<sep>>)
    IN  IF i = 0 THEN <<str>>
        ELSE <<SubSeq(str, 1, i - 1), SubSeq(str, i + 1, Len(str))>>

\* s.rstrip('/')
RECURSIVE RStripSlash(_)
RStripSlash(str) ==
    IF str # <<>> /\ str[Len(str)] = "/"
    THEN RStripSlash(SubSeq(str, 1, Len(str) - 1))
    ELSE str

\* s.replace(old, new): every non-overlapping occurrence, leftmost first
RECURSIVE Replace(_, _, _)
Replace(str, old, new) ==
    IF old = <<>>
    THEN IF str = <<>> THEN new
         ELSE new \o <<Head(str)>> \o Replace(Tail(str), old, new)
    ELSE LET i == Find(str, old)
         IN  IF i = 0 THEN str
             ELSE SubSeq(str, 1, i - 1) \o new
                  \o Replace(SubSeq(str, i + Len(old), Len(str)), old, new)

-----------------------------------------------------------------------------
(* parse_filename_header *)

\* the end (1-based, inclusive) of the run of spaces that starts at i
RECURSIVE RunEnd(_, _)
RunEnd(str, i) ==
    IF i < Len(str) /\ str[i + 1] = " " THEN RunEnd(str, i + 1) ELSE i

\* re.split(r"  +", s): split at every run of two or more spaces
RECURSIVE ReSplitSpaces(_)
ReSplitSpaces(str) ==
    LET i == Find(str, <<" ", " ">>)
    IN  IF i = 0 THEN <<str>>
        ELSE <<SubSeq(str, 1, i - 1)>>
             \o ReSplitSpaces(SubSeq(str, RunEnd(str, i) + 1, Len(str)))

\* the value of `parts` after the two if statements (NONE when neither fires)
HeaderParts(str) ==
    LET p1 == IF Contains(str, <<"\t">>) THEN Split1(str, "\t") ELSE NONE
    IN  IF Contains(str, <<" ", " ">>) THEN ReSplitSpaces(str) ELSE p1

parse_filename_header(str) ==
    LET p == HeaderParts(str)
    IN  IF p # NONE
        THEN [p EXCEPT ![2] = <<"\t">> \o p[2]]
        ELSE <<Split1(str, "\n")[1], <<"\n">>>>

-----------------------------------------------------------------------------
(* The parser on its own: every header remainder over ParseAlphabet *)

ParseAlphabet == {"a", " ", "\t", "\n"}

Idle ==
    /\ repository_url = NONE
    /\ base_path = <<"/">>
    /\ svn = <<>>
    /\ lookups = {}
    /\ raised = ""
    /\ path = NONE /\ path1 = NONE /\ path2 = NONE
    /\ probes = 0
    /\ copied_from = NONE
    /\ diff_content = <<>>
    /\ idx = 0
    /\ from_line = <<>>
    /\ result = <<>>
    /\ pass = 1

InitParse ==
    /\ Idle
    /\ pc = <<"parse">>
    /\ s \in Strs(ParseAlphabet, MaxS)
    /\ parts = NONE

ParseCall ==
    /\ pc = <<"parse">>
    /\ parts' = parse_filename_header(s)
    /\ pc' = <<"parsed">>
    /\ UNCHANGED <<envVars, lookups, raised, s, copyVars, loopVars>>

NextParse == ParseCall

SpecParse == InitParse /\ [][NextParse]_vars

-----------------------------------------------------------------------------
(* C3: for every header remainder s that contains a tab,                   *)
(* parse_filename_header(s) returns the text before the first tab as the   *)
(* filename and the text from that tab onward as the suffix, whether or    *)
(* not s also contains a run of two or more spaces.                        *)
C3_TabTakesPrecedence ==
    (pc = <<"parsed">> /\ Contains(s, <<"\t">>)) =>
        LET i == Find(s, <<"\t">>)
        IN  parts = <<Upto(s, i - 1), From(s, i - 1)>>

\* the text before the first run of two or more spaces
BeforeFirstRun(str) == Upto(str, Find(str, <<" ", " ">>) - 1)

\* the text after the first run of two or more spaces
AfterFirstRun(str) == From(str, RunEnd(str, Find(str, <<" ", " ">>)))

(* C4: for every header remainder s with no tab and at least one run of    *)
(* two or more spaces, parse_filename_header(s) returns exactly two        *)
(* components, the text before the first run and a tab followed by all of  *)
(* the text after it; and in every case the result has two components.     *)
C4_SpaceRunSplitsOnce ==
    pc = <<"parsed">> =>
        /\ Len(parts) = 2
        /\ (~Contains(s, <<"\t">>) /\ Contains(s, <<" ", " ">>)) =>
               parts = <<BeforeFirstRun(s), <<"\t">> \o AfterFirstRun(s)>>

-----------------------------------------------------------------------------
(* svn_info, urllib.unquote, os.path *)

\* the Repository Root every versioned path of the model reports
RepoRoot == <<"s", ":", "/", "r">>

\* what svn_info returns: None, or a dict; a key the dict lacks is NONE
NoInfo == [isNone |-> TRUE, URL |-> NONE, Root |-> NONE, Copied |-> NONE]

EmptyDict == [isNone |-> FALSE, URL |-> NONE, Root |-> NONE, Copied |-> NONE]

Versioned(url) ==
    [isNone |-> FALSE, URL |-> url, Root |-> RepoRoot, Copied |-> NONE]

CopiedInfo(url, from) ==
    [isNone |-> FALSE, URL |-> url, Root |-> RepoRoot, Copied |-> from]

\* svn_info(path, ignore_errors=True): None when 'svn info' fails on the path
svn_info(p) == IF p \in DOMAIN svn THEN svn[p] ELSE NoInfo

\* urllib's _hextochr, for the escapes that occur in the model's URLs
IsHexPair(a, b) == <<a, b>> \in {<<"2", "0">>, <<"2", "5">>}

HexToChr(a, b) == IF <<a, b>> = <<"2", "0">> THEN " " ELSE "%"

\* urllib.unquote: each %XY with XY a hex pair becomes its character
RECURSIVE unquote(_)
unquote(str) ==
    IF str = <<>> THEN <<>>
    ELSE IF str[1] = "%" /\ Len(str) >= 3 /\ IsHexPair(str[2], str[3])
         THEN <<HexToChr(str[2], str[3])>> \o unquote(SubSeq(str, 4, Len(str)))
         ELSE <<str[1]>> \o unquote(Tail(str))

AllSlashes(str) == \A i \in 1..Len(str) : str[i] = "/"

\* posixpath.split: <<head, tail>>
os_path_split(p) ==
    LET i == RFind(p, "/")
        head == Upto(p, i)
    IN  <<IF head # <<>> /\ ~AllSlashes(head) THEN RStripSlash(head) ELSE head,
          From(p, i)>>

\* posixpath.join of two strings
os_path_join(a, b) ==
    IF b # <<>> /\ b[1] = "/" THEN b
    ELSE IF a = <<>> \/ a[Len(a)] = "/" THEN a \o b
    ELSE a \o <<"/">> \o b

-----------------------------------------------------------------------------
(* find_copyfrom *)

\* smart_join with its arguments joined in the wrong order
smart_join_swapped(p1, p2) == IF Truthy(p2) THEN os_path_join(p2, p1) ELSE p1

smart_join(p1, p2) == IF Truthy(p2) THEN os_path_join(p1, p2) ELSE p1

\* from_path1 with the slash after the root stripped as well
from_path1_no_slash(url, root) == unquote(From(url, Len(root) + 1))

\* urllib.unquote(url[len(root):])
from_path1(url, root) == unquote(From(url, Len(root)))

\* one iteration of `while path1:`
FindCopyfromIter ==
    /\ pc # <<>> /\ Head(pc) = "find_copyfrom"
    /\ Truthy(path1)
    /\ LET got  == svn_info(path1)
           info == IF got.isNone THEN EmptyDict ELSE got
           url  == info.Copied
           sp   == os_path_split(path1)
       IN  /\ lookups' = lookups \cup {path1}
           /\ probes' = IF probes < MaxProbes THEN probes + 1 ELSE probes
           /\ IF Truthy(url)
              THEN IF info.Root = NONE
                   THEN /\ raised' = "KeyError"
                        /\ pc' = <<"raised">>
                        /\ UNCHANGED <<copied_from, path1, path2>>
                   ELSE /\ copied_from' =
                               smart_join(from_path1(url, info.Root), path2)
                        /\ pc' = Tail(pc)
                        /\ UNCHANGED <<raised, path1, path2>>
              ELSE /\ IF sp[1] = <<>> \/ sp[1] = <<"/">>
                      THEN path1' = NONE /\ path2' = path2
                      ELSE path1' = sp[1] /\ path2' = smart_join(sp[2], path2)
                   /\ UNCHANGED <<raised, copied_from, pc>>
    /\ UNCHANGED <<envVars, parseVars, path, loopVars>>

\* the loop condition fails: return None
FindCopyfromExit ==
    /\ pc # <<>> /\ Head(pc) = "find_copyfrom"
    /\ ~Truthy(path1)
    /\ copied_from' = NONE
    /\ pc' = Tail(pc)
    /\ UNCHANGED <<envVars, lookups, raised, parseVars, path, path1, path2,
                   probes, loopVars>>

-----------------------------------------------------------------------------
(* find_copyfrom on its own: every path over PathAlphabet, and every       *)
(* answer of 'svn info' on the paths of KeyPaths                           *)

PathAlphabet == {"a", "b", "/"}

KeyPaths == {<<"a">>, <<"a", "/", "b">>, <<"/", "a">>, <<"b">>}

\* the URL a key path was copied from: a different one for each
CopySource(k) ==
    RepoRoot \o
    (IF k = <<"a">> THEN <<"/", "x">>
     ELSE IF k = <<"a", "/", "b">> THEN <<"/", "y", "%", "2", "0", "z">>
     ELSE IF k = <<"/", "a">> THEN <<"/", "x", "/", "y">>
     ELSE <<"/", "z">>)

\* the URL of a working-copy path checked out from /t
UrlOf(k) == RepoRoot \o <<"/", "t">> \o (IF k[1] = "/" THEN k ELSE <<"/">> \o k)

\* the answer of 'svn info' on key path k: a failure, a plain versioned path
\* or a path with copy history
InfoFor(k, c) ==
    IF c = "miss" THEN NoInfo
    ELSE IF c = "plain" THEN Versioned(UrlOf(k))
    ELSE CopiedInfo(UrlOf(k), CopySource(k))

CopyEnvs ==
    {[k \in KeyPaths |-> InfoFor(k, c[k])] :
        c \in [KeyPaths -> {"miss", "plain", "copied"}]}

InitCopy ==
    /\ pc = <<"find_copyfrom", "top">>
    /\ repository_url = NONE
    /\ base_path = <<"/">>
    /\ svn \in CopyEnvs
    /\ lookups = {}
    /\ raised = ""
    /\ s = <<>> /\ parts = NONE
    /\ path \in Strs(PathAlphabet, MaxPath)
    /\ path1 = path
    /\ path2 = NONE
    /\ probes = 0
    /\ copied_from = NONE
    /\ diff_content = <<>>
    /\ idx = 0
    /\ from_line = <<>>
    /\ result = <<>>
    /\ pass = 1

NextCopy == FindCopyfromIter \/ FindCopyfromExit

SpecCopy == InitCopy /\ [][NextCopy]_vars

-----------------------------------------------------------------------------
(* What find_copyfrom is to return, stated on the input path alone *)

\* the ends of the prefixes of p that name p itself or an ancestor of p
AncestorEnds(p) ==
    {k \in 1..Len(p) : k = Len(p) \/ (p[k] # "/" /\ p[k + 1] = "/")}

HasCopy(q) == Truthy(svn_info(q).Copied)

\* the decoded, root-relative origin of a key path with copy history
OriginOf(k) ==
    IF k = <<"a">> THEN <<"/", "x">>
    ELSE IF k = <<"a", "/", "b">> THEN <<"/", "y", " ", "z">>
    ELSE IF k = <<"/", "a">> THEN <<"/", "x", "/", "y">>
    ELSE <<"/", "z">>

\* the path segments of str, in order
RECURSIVE Segments(_)
Segments(str) ==
    IF str = <<>> THEN <<>>
    ELSE IF str[1] = "/" THEN Segments(Tail(str))
    ELSE LET i == Find(str, <<"/">>)
         IN  IF i = 0 THEN <<str>>
             ELSE <<Upto(str, i - 1)>> \o Segments(From(str, i))

\* origin/seg1/seg2/...
RECURSIVE AppendSegments(_, _)
AppendSegments(origin, segs) ==
    IF segs = <<>> THEN origin
    ELSE AppendSegments(origin \o <<"/">> \o Head(segs), Tail(segs))

ExpectedCopyOrigin(p) ==
    LET found == {k \in AncestorEnds(p) : HasCopy(Upto(p, k))}
    IN  IF found = {} THEN NONE
        ELSE LET k == CHOOSE n \in found : \A m \in found : m <= n
             IN  AppendSegments(OriginOf(Upto(p, k)), Segments(From(p, k)))

(* C5: find_copyfrom(path) returns the copy origin of the nearest          *)
(* ancestor-or-self of path that has a 'Copied From URL' (the URL without  *)
(* the Repository Root, URL-decoded), followed by the path segments        *)
(* descended from that ancestor to path, in order; a lookup miss counts as *)
(* no copy info; the result is None when no probed level has copy info.    *)
C5_NearestCopyOrigin ==
    pc = <<"top">> => copied_from = ExpectedCopyOrigin(path)

\* a/b/a where both a/b and a were copied: the origin of a/b is used
C5_Witness ==
    /\ pc = <<"top">>
    /\ path = <<"a", "/", "b", "/", "a">>
    /\ HasCopy(<<"a", "/", "b">>) /\ HasCopy(<<"a">>)
    /\ copied_from = <<"/", "y", " ", "z", "/", "a">>

\* the "/"-separated pieces of str, empty ones counted
Pieces(str) == 1 + Cardinality({i \in 1..Len(str) : str[i] = "/"})

InLoop == pc # <<>> /\ Head(pc) = "find_copyfrom"

(* C10: find_copyfrom terminates for every path: each loop iteration       *)
(* returns or strictly shortens the candidate path; it issues at most one  *)
(* lookup per path component; it never looks up the empty path nor, after  *)
(* stripping a component, the root "/"; and it issues no lookup after the  *)
(* first level that has a 'Copied From URL'.                               *)
C10_BoundedAscent ==
    /\ [][(InLoop /\ Truthy(path1)) =>
            \/ ~InLoop'
            \/ path1' = NONE
            \/ Len(path1') < Len(path1)]_vars
    /\ [][(InLoop /\ HasCopy(path1)) => ~InLoop']_vars
    /\ [](probes <= Pieces(path))
    /\ [](<<>> \notin lookups)
    /\ [](<<"/">> \in lookups => path = <<"/">>)

-----------------------------------------------------------------------------
(* The diff control lines *)

\* a character \s matches
IsSpace(c) == c \in {" ", "\t", "\n"}

AllSpace(str, a, b) == \A i \in a..b : IsSpace(str[i])

\* characters a..b are all matched by "."
NoNewline(str, a, b) == \A i \in a..b : str[i] # "\n"

\* re.compile(r'^MMM\s+.*\s+\(.*\)').match(line), MMM the three-character
\* marker: \s+ over 4..j, .* over j+1..k-1, \s+ over k..m, "(" at m+1,
\* .* over m+2..n-1, ")" at n
HeaderLineMatch(marker, line) ==
    /\ StartsWith(line, marker)
    /\ \E m \in 5..(Len(line) - 2) :
          /\ line[m + 1] = "("
          /\ IsSpace(line[m])
          /\ \E n \in (m + 2)..Len(line) :
                line[n] = ")" /\ NoNewline(line, m + 2, n - 1)
          /\ \E j \in 4..(m - 1) :
                /\ AllSpace(line, 4, j)
                /\ \E k \in (j + 1)..m :
                      NoNewline(line, j + 1, k - 1) /\ AllSpace(line, k, m)

DIFF_ORIG_FILE_LINE_RE(line) == HeaderLineMatch(<<"-", "-", "-">>, line)

DIFF_NEW_FILE_LINE_RE(line) == HeaderLineMatch(<<"+", "+", "+">>, line)

-----------------------------------------------------------------------------
(* handle_renames *)

\* rename detection that is never skipped
skip_never == FALSE

\* `if self.options.repository_url:`
skip_rename_detection == Truthy(repository_url)

AtHandleRenames == pc = <<"handle_renames">>

\* the line the for loop is at
line == diff_content[idx + 1]

\* explicit-URL mode: return diff_content
HandleRenamesSkip ==
    /\ AtHandleRenames /\ idx = 0
    /\ skip_rename_detection
    /\ result' = diff_content
    /\ pc' = <<"done">>
    /\ UNCHANGED <<envVars, lookups, raised, parseVars, copyVars, diff_content,
                   idx, from_line, pass>>

\* a '---' line: remember it and continue
HandleRenamesOrigLine ==
    /\ AtHandleRenames /\ idx < Len(diff_content)
    /\ ~skip_rename_detection
    /\ DIFF_ORIG_FILE_LINE_RE(line)
    /\ from_line' = line
    /\ idx' = idx + 1
    /\ UNCHANGED <<pc, envVars, lookups, raised, parseVars, copyVars,
                   diff_content, result, pass>>

\* a '+++' line: parse its file name and call find_copyfrom on it
HandleRenamesNewLine ==
    /\ AtHandleRenames /\ idx < Len(diff_content)
    /\ ~skip_rename_detection
    /\ ~DIFF_ORIG_FILE_LINE_RE(line)
    /\ DIFF_NEW_FILE_LINE_RE(line)
    /\ s' = From(line, 4)
    /\ parts' = parse_filename_header(s')
    /\ IF Len(parts') # 2
       THEN \* to_file, _ = ... cannot unpack
            /\ raised' = "ValueError"
            /\ pc' = <<"raised">>
            /\ UNCHANGED copyVars
       ELSE /\ path' = parts'[1]
            /\ path1' = parts'[1]
            /\ path2' = NONE
            /\ probes' = 0
            /\ pc' = <<"find_copyfrom", "handle_renames_return">>
            /\ UNCHANGED <<raised, copied_from>>
    /\ UNCHANGED <<envVars, lookups, loopVars>>

\* the '--- ' line as it is emitted once find_copyfrom has returned
mangled_from_line ==
    IF copied_from # NONE THEN Replace(from_line, path, copied_from)
    ELSE from_line

\* find_copyfrom has returned: emit the '---' line, then the '+++' line
HandleRenamesNewLineReturn ==
    /\ pc = <<"handle_renames_return">>
    /\ result' = result \o <<mangled_from_line, line>>
    /\ idx' = idx + 1
    /\ pc' = <<"handle_renames">>
    /\ UNCHANGED <<envVars, lookups, raised, parseVars, copyVars, diff_content,
                   from_line, pass>>

\* any other line is added straight to the output
HandleRenamesOtherLine ==
    /\ AtHandleRenames /\ idx < Len(diff_content)
    /\ ~skip_rename_detection
    /\ ~DIFF_ORIG_FILE_LINE_RE(line)
    /\ ~DIFF_NEW_FILE_LINE_RE(line)
    /\ result' = Append(result, line)
    /\ idx' = idx + 1
    /\ UNCHANGED <<pc, envVars, lookups, raised, parseVars, copyVars,
                   diff_content, from_line, pass>>

\* the loop is over: return result
HandleRenamesDone ==
    /\ AtHandleRenames /\ idx = Len(diff_content)
    /\ ~skip_rename_detection
    /\ pc' = <<"done">>
    /\ UNCHANGED <<envVars, lookups, raised, parseVars, copyVars, loopVars>>

-----------------------------------------------------------------------------
(* handle_renames on every diff of at most MaxLines lines of RenameLines   *)

\* "--- file.py\t(revision 0)\n"
OrigFilePy ==
    <<"-", "-", "-", " ", "f", "i", "l", "e", ".", "p", "y", "\t",
      "(", "r", "e", "v", "i", "s", "i", "o", "n", " ", "0", ")", "\n">>

\* "+++ file.py\t(revision 3)\n"
NewFilePy ==
    <<"+", "+", "+", " ", "f", "i", "l", "e", ".", "p", "y", "\t",
      "(", "r", "e", "v", "i", "s", "i", "o", "n", " ", "3", ")", "\n">>

\* "--- a\t(a)\n": the file name occurs in the info as well
OrigA == <<"-", "-", "-", " ", "a", "\t", "(", "a", ")", "\n">>

\* "+++ a\t(a)\n"
NewA == <<"+", "+", "+", " ", "a", "\t", "(", "a", ")", "\n">>

\* "+++ a/b\t(r)\n": a file below a
NewAB == <<"+", "+", "+", " ", "a", "/", "b", "\t", "(", "r", ")", "\n">>

\* " x\n": a context line
ContextLine == <<" ", "x", "\n">>

RenameLines == {OrigFilePy, NewFilePy, OrigA, NewA, NewAB, ContextLine}

FilePy == <<"f", "i", "l", "e", ".", "p", "y">>

RenameKeys == {FilePy, <<"a">>}

\* file.py was copied from <root>/orig.py, a from <root>/x
RenameInfo(k, c) ==
    IF c = "plain" THEN Versioned(UrlOf(k))
    ELSE CopiedInfo(UrlOf(k),
                    RepoRoot \o (IF k = FilePy
                                 THEN <<"/", "o", "r", "i", "g", ".", "p", "y">>
                                 ELSE <<"/", "x">>))

RenameEnvs ==
    {[k \in RenameKeys |-> RenameInfo(k, c[k])] :
        c \in [RenameKeys -> {"plain", "copied"}]}

InitRenames ==
    /\ pc = <<"handle_renames">>
    /\ repository_url \in {NONE, RepoRoot}
    /\ base_path = <<"/">>
    /\ svn \in RenameEnvs
    /\ lookups = {}
    /\ raised = ""
    /\ s = <<>> /\ parts = NONE
    /\ path = NONE /\ path1 = NONE /\ path2 = NONE
    /\ probes = 0
    /\ copied_from = NONE
    /\ diff_content \in Strs(RenameLines, MaxLines)
    /\ idx = 0
    /\ from_line = <<>>
    /\ result = <<>>
    /\ pass = 1

NextRenames ==
    \/ HandleRenamesSkip
    \/ HandleRenamesOrigLine
    \/ HandleRenamesNewLine
    \/ HandleRenamesNewLineReturn
    \/ HandleRenamesOtherLine
    \/ HandleRenamesDone
    \/ FindCopyfromIter
    \/ FindCopyfromExit

SpecRenames == InitRenames /\ [][NextRenames]_vars

-----------------------------------------------------------------------------
Returned == pc = <<"done">>

(* C1: with rename detection enabled, handle_renames returns exactly as    *)
(* many lines as it was given, for every input.                            *)
C1_LengthPreserved ==
    (Returned /\ ~skip_rename_detection) => Len(result) = Len(diff_content)

\* the end-to-end scenario: file.py, copied from <root>/orig.py
FilePyScenario ==
    /\ Returned
    /\ ~skip_rename_detection
    /\ diff_content = <<OrigFilePy, NewFilePy>>
    /\ svn[FilePy].Copied =
           RepoRoot \o <<"/", "o", "r", "i", "g", ".", "p", "y">>
    /\ svn[FilePy].Root = RepoRoot

(* C2 as stated: in the scenario the output is the two lines               *)
(* "--- orig.py\t(revision 0)\n" and the '+++' line unchanged.             *)
C2_AsStated ==
    FilePyScenario =>
        result = << <<"-", "-", "-", " ", "o", "r", "i", "g", ".", "p", "y",
                      "\t", "(", "r", "e", "v", "i", "s", "i", "o", "n", " ",
                      "0", ")", "\n">>,
                    NewFilePy >>

(* C2 as amended: in the scenario the output is the two lines              *)
(* "--- /orig.py\t(revision 0)\n" (the copy origin keeps the "/" that      *)
(* follows the repository root) and the '+++' line unchanged.              *)
C2_RootRelativeOrigin ==
    FilePyScenario =>
        result = << <<"-", "-", "-", " ", "/", "o", "r", "i", "g", ".", "p",
                      "y", "\t", "(", "r", "e", "v", "i", "s", "i", "o", "n",
                      " ", "0", ")", "\n">>,
                    NewFilePy >>

C2_Witness == FilePyScenario /\ Len(result) = 2 /\ lookups = {FilePy}

(* C8: in explicit-URL mode handle_renames returns its input unchanged,    *)
(* for every input, and issues no metadata lookup.                         *)
C8_SkipReturnsInput ==
    (Returned /\ Truthy(repository_url)) =>
        result = diff_content /\ lookups = {}

\* a diff whose headers would be rewritten in working-copy mode
C8_Witness ==
    /\ Returned
    /\ Truthy(repository_url)
    /\ diff_content = <<OrigFilePy, NewFilePy, ContextLine>>
    /\ HasCopy(FilePy)
    /\ result = diff_content

\* the info of a header line: the text from its first tab onward
InfoSuffix(str) ==
    IF Contains(str, <<"\t">>) THEN From(str, Find(str, <<"\t">>) - 1) ELSE <<>>

EndsWith(str, suffix) ==
    /\ Len(str) >= Len(suffix)
    /\ SubSeq(str, Len(str) - Len(suffix) + 1, Len(str)) = suffix

(* C9: with rename detection enabled, the line handle_renames emits for a  *)
(* '---' header keeps that header's marker, separator and info verbatim    *)
(* (even when the file name also occurs in the info), it is rewritten only *)
(* from the '+++' line that immediately follows the header in the input,   *)
(* and every other line is emitted unchanged.                              *)
C9_OnlyPathRewritten ==
    [][(pc = <<"handle_renames_return">> /\ from_line # <<>>) =>
         LET emitted == result'[Len(result) + 1]
         IN  /\ Len(result') = Len(result) + 2
             /\ result'[Len(result) + 2] = line
             /\ StartsWith(emitted, Upto(from_line, 4))
             /\ EndsWith(emitted, InfoSuffix(from_line))
             /\ emitted # from_line => (idx >= 1 /\ diff_content[idx] = from_line)
      ]_vars

-----------------------------------------------------------------------------
(* convert_to_absolute_paths *)

AtConvert == pc = <<"convert_to_absolute_paths">> /\ idx < Len(diff_content)

\* the condition under which the line is split into front and the rest
is_file_line(l) ==
    \/ DIFF_NEW_FILE_LINE_RE(l)
    \/ DIFF_ORIG_FILE_LINE_RE(l)
    \/ StartsWith(l, <<"I", "n", "d", "e", "x", ":", " ">>)

\* line.split(" ", 1)
front_and_line(l) == Split1(l, " ")

\* an absolute-path test that never succeeds
never_absolute(rem) == FALSE

\* line.startswith('/')
already_absolute(rem) == StartsWith(rem, <<"/">>)

\* a line that is no file line: front stays None and the line is appended
ConvertPlainLine ==
    /\ AtConvert
    /\ ~is_file_line(line)
    /\ result' = Append(result, line)
    /\ idx' = idx + 1
    /\ UNCHANGED <<pc, envVars, lookups, raised, parseVars, copyVars,
                   diff_content, from_line, pass>>

\* a file line whose path starts with "/": front + " " + line
ConvertAbsoluteLine ==
    /\ AtConvert
    /\ is_file_line(line)
    /\ Len(front_and_line(line)) = 2
    /\ LET front == front_and_line(line)[1]
           rem   == front_and_line(line)[2]
       IN  /\ Truthy(front)
           /\ already_absolute(rem)
           /\ result' = Append(result, front \o <<" ">> \o rem)
    /\ idx' = idx + 1
    /\ UNCHANGED <<pc, envVars, lookups, raised, parseVars, copyVars,
                   diff_content, from_line, pass>>

\* `front, line = ...` or `file, rest = ...` cannot unpack: ValueError
ConvertUnpackError ==
    /\ AtConvert
    /\ is_file_line(line)
    /\ \/ /\ Len(front_and_line(line)) # 2
          /\ UNCHANGED parseVars
       \/ /\ Len(front_and_line(line)) = 2
          /\ Truthy(front_and_line(line)[1])
          /\ ~already_absolute(front_and_line(line)[2])
          /\ s' = front_and_line(line)[2]
          /\ parts' = parse_filename_header(s')
          /\ Len(parts') # 2
    /\ raised' = "ValueError"
    /\ pc' = <<"raised">>
    /\ UNCHANGED <<envVars, lookups, copyVars, loopVars>>

\* explicit-URL mode: the path is base_path + "/" + file, unquoted
ConvertExplicitUrl ==
    /\ AtConvert
    /\ is_file_line(line)
    /\ Len(front_and_line(line)) = 2
    /\ Truthy(repository_url)
    /\ LET front == front_and_line(line)[1]
           rem   == front_and_line(line)[2]
       IN  /\ Truthy(front)
           /\ ~already_absolute(rem)
           /\ s' = rem
           /\ parts' = parse_filename_header(rem)
           /\ Len(parts') = 2
           /\ result' = Append(result,
                               front \o <<" ">>
                               \o unquote(base_path \o <<"/">> \o parts'[1])
                               \o parts'[2])
    /\ idx' = idx + 1
    /\ UNCHANGED <<pc, envVars, lookups, raised, copyVars, diff_content,
                   from_line, pass>>

\* working-copy mode: the path comes from svn_info(file)
ConvertWorkingCopy ==
    /\ AtConvert
    /\ is_file_line(line)
    /\ Len(front_and_line(line)) = 2
    /\ ~Truthy(repository_url)
    /\ LET front == front_and_line(line)[1]
           rem   == front_and_line(line)[2]
       IN  /\ Truthy(front)
           /\ ~already_absolute(rem)
           /\ s' = rem
           /\ parts' = parse_filename_header(rem)
           /\ Len(parts') = 2
           /\ lookups' = lookups \cup {parts'[1]}
           /\ LET info == svn_info(parts'[1])
              IN  IF info.isNone
                  THEN \* result.append(orig_line); continue
                       /\ result' = Append(result, line)
                       /\ idx' = idx + 1
                       /\ UNCHANGED <<pc, raised>>
                  ELSE IF info.URL = NONE \/ info.Root = NONE
                  THEN \* info["URL"] or info["Repository Root"]: KeyError
                       /\ raised' = "KeyError"
                       /\ pc' = <<"raised">>
                       /\ UNCHANGED <<result, idx>>
                  ELSE /\ result' =
                            Append(result,
                                   front \o <<" ">>
                                   \o unquote(From(info.URL, Len(info.Root)))
                                   \o parts'[2])
                       /\ idx' = idx + 1
                       /\ UNCHANGED <<pc, raised>>
    /\ UNCHANGED <<envVars, copyVars, diff_content, from_line, pass>>

\* the loop is over: return result
ConvertDone ==
    /\ pc = <<"convert_to_absolute_paths">>
    /\ idx = Len(diff_content)
    /\ pc' = <<"done">>
    /\ UNCHANGED <<envVars, lookups, raised, parseVars, copyVars, loopVars>>

\* convert_to_absolute_paths applied to its own output
ConvertAgain ==
    /\ pc = <<"done">>
    /\ pass = 1
    /\ diff_content' = result
    /\ result' = <<>>
    /\ idx' = 0
    /\ pass' = 2
    /\ pc' = <<"convert_to_absolute_paths">>
    /\ UNCHANGED <<envVars, lookups, raised, parseVars, copyVars, from_line>>

-----------------------------------------------------------------------------
(* convert_to_absolute_paths on every diff of at most MaxLines lines of    *)
(* ConvertLines                                                            *)

\* "--- a\t(r)\n"
OrigRelative == <<"-", "-", "-", " ", "a", "\t", "(", "r", ")", "\n">>

\* "+++ /x\t(r)\n"
NewAbsolute == <<"+", "+", "+", " ", "/", "x", "\t", "(", "r", ")", "\n">>

\* "Index: b\n"
IndexRelative == <<"I", "n", "d", "e", "x", ":", " ", "b", "\n">>

\* "--- a  b  (r)\n": spaces for separators, twice
OrigTwoRuns ==
    <<"-", "-", "-", " ", "a", " ", " ", "b", " ", " ", "(", "r", ")", "\n">>

\* "---\ta\t(r)\n": a tab after the marker, and no space at all
OrigTabbed == <<"-", "-", "-", "\t", "a", "\t", "(", "r", ")", "\n">>

ConvertLines ==
    {OrigRelative, NewAbsolute, IndexRelative, OrigTwoRuns, OrigTabbed,
     ContextLine}

\* what 'svn info a' and 'svn info b' answer: a is missing, reports nothing
\* usable, or is switched to /t/a or to "/t/a b"; b is missing or at /t/b
ConvertEnvs ==
    {[k \in {<<"a">>, <<"b">>} |-> IF k = <<"a">> THEN ia ELSE ib] :
        ia \in {NoInfo, EmptyDict, Versioned(UrlOf(<<"a">>)),
                Versioned(UrlOf(<<"a", "%", "2", "0", "b">>))},
        ib \in {NoInfo, Versioned(UrlOf(<<"b">>))}}

InitConvert ==
    /\ pc = <<"convert_to_absolute_paths">>
    /\ \/ /\ repository_url = NONE
          /\ base_path = <<"/">>
          /\ svn \in ConvertEnvs
       \/ /\ repository_url = RepoRoot
          /\ base_path \in {<<"/">>, <<"/", "t">>}
          /\ svn = [k \in {<<"a">>, <<"b">>} |-> NoInfo]
    /\ lookups = {}
    /\ raised = ""
    /\ s = <<>> /\ parts = NONE
    /\ path = NONE /\ path1 = NONE /\ path2 = NONE
    /\ probes = 0
    /\ copied_from = NONE
    /\ diff_content \in Strs(ConvertLines, MaxLines)
    /\ idx = 0
    /\ from_line = <<>>
    /\ result = <<>>
    /\ pass = 1

NextConvert ==
    \/ ConvertPlainLine
    \/ ConvertAbsoluteLine
    \/ ConvertUnpackError
    \/ ConvertExplicitUrl
    \/ ConvertWorkingCopy
    \/ ConvertDone
    \/ ConvertAgain

SpecConvert == InitConvert /\ [][NextConvert]_vars

-----------------------------------------------------------------------------
\* a file line in the format 'marker path...' whose path starts with "/"
AbsoluteFileLine(l) ==
    /\ is_file_line(l)
    /\ \/ StartsWith(l, <<"-", "-", "-", " ", "/">>)
       \/ StartsWith(l, <<"+", "+", "+", " ", "/">>)
       \/ StartsWith(l, <<"I", "n", "d", "e", "x", ":", " ", "/">>)

\* a file line in the format 'marker path...' whose path does not start
\* with "/", and the file it names: the text between the marker's space and
\* the first tab or newline
RelativeFileLine(l) ==
    /\ is_file_line(l)
    /\ Len(front_and_line(l)) = 2
    /\ ~StartsWith(front_and_line(l)[2], <<"/">>)
    /\ ~Contains(front_and_line(l)[2], <<" ", " ">>)

FileOf(l) ==
    LET rem == front_and_line(l)[2]
    IN  IF Contains(rem, <<"\t">>) THEN Upto(rem, Find(rem, <<"\t">>) - 1)
        ELSE Upto(rem, Find(rem, <<"\n">>) - 1)

Unusable(info) == info.isNone \/ info.URL = NONE \/ info.Root = NONE

(* C6: in working-copy mode, for a file line with a non-absolute path      *)
(* whose lookup returns not-found, or a mapping without 'URL' or           *)
(* 'Repository Root', convert_to_absolute_paths emits the line unmodified, *)
(* raises nothing and goes on to the next line.                            *)
C6_SoftFailPerLine ==
    [][(AtConvert /\ ~Truthy(repository_url) /\ RelativeFileLine(line)
        /\ Unusable(svn_info(FileOf(line)))) =>
           /\ result' = Append(result, line)
           /\ raised' = ""
           /\ pc' = pc
           /\ idx' = idx + 1]_vars

(* C7: convert_to_absolute_paths emits a file line whose path starts with  *)
(* "/" unchanged and issues no lookup for it, in both modes; and applied   *)
(* to its own output, when every file line of that output has a path       *)
(* starting with "/", it returns that output unchanged.                    *)
C7_AbsoluteUntouched ==
    /\ [][(AtConvert /\ AbsoluteFileLine(line)) =>
            /\ result' = Append(result, line)
            /\ lookups' = lookups
            /\ raised' = ""]_vars
    /\ []((Returned /\ pass = 2
           /\ \A i \in 1..Len(diff_content) :
                 is_file_line(diff_content[i]) =>
                     AbsoluteFileLine(diff_content[i])) =>
              result = diff_content)

\* the second application has returned the output of the first, in which a
\* relative path had been made absolute by a lookup
C7_Witness ==
    /\ Returned /\ pass = 2
    /\ lookups # {}
    /\ \E i \in 1..Len(diff_content) : AbsoluteFileLine(diff_content[i])
    /\ \A i \in 1..Len(diff_content) :
          is_file_line(diff_content[i]) => AbsoluteFileLine(diff_content[i])
    /\ result = diff_content

====
